---- MODULE Spec2Model ----
(***************************************************************************)
(* A model of scripts/tickets.py: one run of main(), from the login to the *)
(* tracker through the aggregators to the writes to the metrics store.     *)
(*                                                                         *)
(* Numbers are fixed-point: a Python number x is Num(x * UNIT).  The       *)
(* values None, float('nan') and the string "AUTH_ERROR" are records of    *)
(* the same shape, so that one mapping can hold all of them.               *)
(***************************************************************************)
EXTENDS Integers, Sequences, FiniteSets, TLC

\* ------------------------------------------------------------------ bounds

NumCountKeys == 2
MaxIssues == 3
MaxSprints == 2
MaxWindow == 2
MaxClock == 1

\* ------------------------------------------------------------------ values

UNIT == 10000

Num(x) == [kind |-> "num", v |-> x]
None == [kind |-> "None", v |-> 0]
NaN == [kind |-> "nan", v |-> 0]
AUTH_ERROR == [kind |-> "AUTH_ERROR", v |-> 0]

\* round(x, ndigits) of Python 2: to the closest multiple of 10^-ndigits, a
\* tie going away from zero; round(nan) is nan.  step is 10^-ndigits in UNITs.
\* The arithmetic is exact decimal arithmetic; the inputs of the model are
\* chosen so that no sum is a tie that binary floating point would decide.
py_round(x, step) ==
    IF x.kind = "nan" THEN NaN
    ELSE IF x.v >= 0
         THEN Num(((2 * x.v + step) \div (2 * step)) * step)
         ELSE Num(0 - (((2 * (0 - x.v) + step) \div (2 * step)) * step))

\* ------------------------------------------------------------------ tables

COUNT_QUERIES ==
    << [key |-> "dc_inbox", filter |-> 47168],
       [key |-> "CA,priority=Blocker", filter |-> 47165],
       [key |-> "CA,priority=Critical", filter |-> 47166],
       [key |-> "CA,priority=Major", filter |-> 47167],
       [key |-> "CA,priority=MinorAndTrivial", filter |-> 47876],
       [key |-> "CA,priority=Non-bug", filter |-> 48477],
       [key |-> "CA,workflow=Blocked", filter |-> 52664],
       [key |-> "SCTX", filter |-> 47170],
       [key |-> "XOP", filter |-> 47169],
       [key |-> "PAR", filter |-> 47171],
       [key |-> "Hotlist", filter |-> 47531],
       [key |-> "Staging", filter |-> 48797],
       [key |-> "FalconMustFix", filter |-> 57062] >>

\* The entries of COUNT_QUERIES a run of the model iterates.
CountEntries == 1 .. (IF NumCountKeys < Len(COUNT_QUERIES) THEN NumCountKeys ELSE Len(COUNT_QUERIES))
CountKeys == {COUNT_QUERIES[i].key : i \in CountEntries}
FilterOf(key) == COUNT_QUERIES[CHOOSE i \in CountEntries : COUNT_QUERIES[i].key = key].filter

QRF_DB_KEY == "CA,priority=QRF"
QRF_JIRA_FILTER == 47875
BACKLOG_DEPTH_DB_KEY == "backlog_depth"
BACKLOG_DEPTH_JIRA_FILTER == 50374
SPRINT_BURNDOWN_DB_KEY == "sprint_burndown"
SPRINT_BURNDOWN_JIRA_FILTER == 50375
SPRINT_VELOCITY_DB_KEY == "sprint_velocity"
SPRINT_BOARD_ID == 70
SPRINT_REGEX == "^xs-ring3\\s.+"
NoRegex == "None"
KEY_FIELD == "key"
DRV_FIELD == "customfield_18131"
STORY_POINTS_FIELD == "customfield_11332"
NANOS == 1000000000

\* retrieve_qrf, retrieve_backlog_depth, retrieve_sprint_burndown: the filter,
\* the field and the rounding step of each (0: the sum is returned as it is).
SUM_QUERIES ==
    << [key |-> QRF_DB_KEY, filter |-> QRF_JIRA_FILTER, field |-> DRV_FIELD, step |-> 10],
       [key |-> BACKLOG_DEPTH_DB_KEY, filter |-> BACKLOG_DEPTH_JIRA_FILTER,
        field |-> STORY_POINTS_FIELD, step |-> 100],
       [key |-> SPRINT_BURNDOWN_DB_KEY, filter |-> SPRINT_BURNDOWN_JIRA_FILTER,
        field |-> STORY_POINTS_FIELD, step |-> 0] >>

\* ------------------------------------------------------------------ helpers

\* One more call of operation op in the count of calls c.
Bump(c, op) == IF op \in DOMAIN c THEN [c EXCEPT ![op] = @ + 1] ELSE c @@ (op :> 1)

RECURSIVE SeqsUpTo(_, _)
\* The sequences over S of length at most n.
SeqsUpTo(S, n) ==
    IF n = 0 THEN {<< >>}
    ELSE LET shorter == SeqsUpTo(S, n - 1)
         IN  shorter \cup {Append(q, x) : q \in {r \in shorter : Len(r) = n - 1}, x \in S}

\* ------------------------------------------------------------------ retrieve_issues

\* retrieve_issues with a handler that reports the JIRAError and goes on with
\* no issues instead of exiting.
retrieve_issues_going_on(filter_outcome, search_outcome, found) ==
    IF filter_outcome = "JIRAError" \/ search_outcome = "JIRAError"
    THEN [exit |-> 0, issues |-> [total |-> 0, items |-> << >>]]
    ELSE [exit |-> 0, issues |-> found]

\* retrieve_issues: the filter is resolved, then the issues are searched; a
\* JIRAError of either ends the process with exit(3).  filter_outcome and
\* search_outcome are what the two tracker calls do, found what the search
\* returns when it succeeds.
retrieve_issues(filter_outcome, search_outcome, found) ==
    IF filter_outcome = "JIRAError" \/ search_outcome = "JIRAError"
    THEN [exit |-> 3, issues |-> [total |-> 0, items |-> << >>]]
    ELSE [exit |-> 0, issues |-> found]

\* The tracker calls retrieve_issues makes: the search only when the filter
\* was resolved.
issue_calls(filter_id, filter_outcome) ==
    IF filter_outcome = "JIRAError"
    THEN << <<"filter", filter_id>> >>
    ELSE << <<"filter", filter_id>>, <<"search", filter_id>> >>

\* The calls of retrieve_issues that raised a JIRAError.
issue_failures(filter_id, filter_outcome, search_outcome) ==
    IF filter_outcome = "JIRAError" THEN {<<"filter", filter_id>>}
    ELSE IF search_outcome = "JIRAError" THEN {<<"search", filter_id>>}
    ELSE {}

\* retrieve_issue_count: issues.total
retrieve_issue_count(issues) == Num(issues.total * UNIT)

RECURSIVE py_sum(_)
\* sum(list) of Python: the elements added to 0 from the left.
py_sum(nums) ==
    IF nums = << >> THEN 0 ELSE py_sum(SubSeq(nums, 1, Len(nums) - 1)) + nums[Len(nums)].v

\* retrieve_sum_of_field that leaves the first issue out.
retrieve_sum_after_first(issues, field) ==
    LET fields == [i \in 1 .. Len(issues.items) |-> issues.items[i].fields[field]]
    IN  Num(py_sum(SelectSeq(IF fields = << >> THEN << >> ELSE Tail(fields), LAMBDA f : f /= None)))

\* retrieve_sum_of_field: the field of every issue, then the sum of those
\* that are not None.
retrieve_sum_of_field(issues, field) ==
    LET fields == [i \in 1 .. Len(issues.items) |-> issues.items[i].fields[field]]
    IN  Num(py_sum(SelectSeq(fields, LAMBDA f : f /= None)))

\* retrieve_qrf / retrieve_backlog_depth round the sum; retrieve_sprint_burndown
\* returns it as it is.
rounded_metric(sum, step) == IF step = 0 THEN sum ELSE py_round(sum, step)

\* ------------------------------------------------------------------ retrieve_sprint_velocity

\* A sprint name is the sequence of its characters.
NameRing3 == <<"x", "s", "-", "r", "i", "n", "g", "3", " ", "S", "p", "r", "i", "n", "t", " ", "4", "2">>
NameOther == <<"o", "t", "h", "e", "r", "-", "t", "e", "a", "m", " ", "S", "p", "r", "i", "n", "t", " ", "4", "2">>
SprintNames == {NameRing3, NameOther}
SprintStates == {"CLOSED", "ACTIVE", "FUTURE"}

\* re.match(SPRINT_REGEX, name): the literal xs-ring3 at the start of the name,
\* one whitespace character, then at least one character that is no newline.
re_match(pattern, name) ==
    LET literal == <<"x", "s", "-", "r", "i", "n", "g", "3">>
        n == Len(literal)
    IN  /\ pattern = SPRINT_REGEX
        /\ Len(name) >= n + 2
        /\ SubSeq(name, 1, n) = literal
        /\ name[n + 1] \in {" ", "\t", "\n", "\r", "\f"}
        /\ name[n + 2] /= "\n"

\* Lines 96-98: the sprints whose name matches (when a pattern is given) and
\* whose state is CLOSED, in the order of the listing.
completed_sprints(sprints, sprint_regex) ==
    LET named == IF sprint_regex /= NoRegex
                 THEN SelectSeq(sprints, LAMBDA s : re_match(sprint_regex, s.name))
                 ELSE sprints
    IN  SelectSeq(named, LAMBDA s : s.state = "CLOSED")

RECURSIVE sorted_forward(_)
\* sorted(completed, key=id_of_sprint), without reverse=True.
sorted_forward(sprints) ==
    IF sprints = << >> THEN << >>
    ELSE LET last == sprints[Len(sprints)]
             rest == sorted_forward(SubSeq(sprints, 1, Len(sprints) - 1))
             before == SelectSeq(rest, LAMBDA s : s.id <= last.id)
             after == SelectSeq(rest, LAMBDA s : s.id > last.id)
         IN  before \o <<last>> \o after

RECURSIVE sorted_reverse(_)
\* sorted(completed, key=id_of_sprint, reverse=True): by identifier, largest
\* first, sprints of equal identifier in the order they had.
sorted_reverse(sprints) ==
    IF sprints = << >> THEN << >>
    ELSE LET last == sprints[Len(sprints)]
             rest == sorted_reverse(SubSeq(sprints, 1, Len(sprints) - 1))
             before == SelectSeq(rest, LAMBDA s : s.id >= last.id)
             after == SelectSeq(rest, LAMBDA s : s.id < last.id)
         IN  before \o <<last>> \o after

\* list[0:window] of Python: a negative window counts from the end.
slice_to(list, window) ==
    LET stop == IF window < 0 THEN Len(list) + window ELSE window
        n == IF stop < 0 THEN 0 ELSE IF stop > Len(list) THEN Len(list) ELSE stop
    IN  SubSeq(list, 1, n)

\* Lines 96-104: latest_completed.
latest_completed_of(sprints, sprint_regex, window) ==
    slice_to(sorted_reverse(completed_sprints(sprints, sprint_regex)), window)

\* Lines 113-114: the mean of vels rounded to one decimal, nan when vels is empty.
average_velocity(vels) ==
    IF vels = << >> THEN py_round(NaN, 1000)
    ELSE LET total == py_sum(vels)
             n == Len(vels)
         IN  IF total >= 0
             THEN Num(((2 * total + n * 1000) \div (2 * n * 1000)) * 1000)
             ELSE Num(0 - (((2 * (0 - total) + n * 1000) \div (2 * n * 1000)) * 1000))

\* The handler testing for status 401 instead of 403.
on_JIRAError_401(status_code) == IF status_code = 401 THEN AUTH_ERROR ELSE None

\* Lines 115-118: a JIRAError of status 403 gives "AUTH_ERROR"; for any other
\* status the handler ends without a return statement, which returns None.
on_JIRAError(status_code) == IF status_code = 403 THEN AUTH_ERROR ELSE None

\* What completedIssuesEstimateSum does for one sprint (line 109-111).
EstimateValues == {Num(1 * UNIT), Num(2 * UNIT)}
StatusCodes == {403, 500}
EstimateOutcomes ==
    {[kind |-> "sum", value |-> v, status |-> 0] : v \in EstimateValues}
    \cup {[kind |-> "KeyError", value |-> None, status |-> 0]}
    \cup {[kind |-> "JIRAError", value |-> None, status |-> c] : c \in StatusCodes}

\* ------------------------------------------------------------------ inputs

\* What a tracker call that raises nothing but JIRAError can do.
CallOutcomes == {"ok", "JIRAError"}
\* issues.total of a count query.
Totals == {0, 2}
\* The values a field of an issue can have.
FieldValues == {None, Num(0), Num(3 * UNIT), Num(5 * UNIT), Num(73336)}

Sprint(id, name, state) == [id |-> id, name |-> name, state |-> state]
Sprints == {Sprint(i, n, s) : i \in 1 .. MaxSprints, n \in SprintNames, s \in SprintStates}
\* The listings of a board: sprints of distinct identifiers, in any order.
AllSprintLists ==
    {l \in SeqsUpTo(Sprints, MaxSprints) :
        \A i, j \in 1 .. Len(l) : l[i].id = l[j].id => i = j}
AllIssueLists == SeqsUpTo(FieldValues, MaxIssues)
\* A board with five closed sprints of the team, an active one and a closed
\* sprint of another team.
BoardSprints ==
    << Sprint(8, NameRing3, "CLOSED"), Sprint(10, NameRing3, "CLOSED"),
       Sprint(12, NameOther, "CLOSED"), Sprint(6, NameRing3, "CLOSED"),
       Sprint(11, NameRing3, "ACTIVE"), Sprint(9, NameRing3, "CLOSED"),
       Sprint(7, NameRing3, "CLOSED") >>
\* The listings and the windows retrieve_sprint_velocity is tried on.
VelocitySprintLists == AllSprintLists \cup {BoardSprints}
VelocityWindows == (0 .. MaxWindow) \cup {3}

\* The listings and the issues of a whole run.
RunSprintLists == {<< >>, BoardSprints}
RunIssueLists == {<< Num(73336), None >>}

\* ------------------------------------------------------------------ state

VARIABLES
    pc,               \* where the run is
    dry_run,          \* args.dry_run
    user,             \* whether args.user is given
    logins,           \* the credentials of each JIRA(...) construction, in order
    attempts,         \* tracker call |-> how many times it was made
    failed,           \* the tracker calls that raised a JIRAError
    values,           \* main's values mapping
    metric,           \* which of SUM_QUERIES is being computed
    issues,           \* retrieve_sum_of_field's issues
    ret,              \* the value an aggregator returns
    sprint_regex,     \* retrieve_sprint_velocity's arguments
    window,
    sprints,          \* what jira.sprints returned
    latest_completed, \* retrieve_sprint_velocity's locals
    vels,
    lookups,          \* the estimate lookups made so far, with what each did
    now,              \* int(time.time())
    tstamp,           \* main's tstamp
    captures,         \* how many times the clock was read
    iterated,         \* the keys the write loop has passed
    db_writes,        \* db_write invocation (key, value, timestamp) |-> how many
    exit_status       \* the process's exit status, -1 while it runs

vars ==
    << pc, dry_run, user, logins, attempts, failed, values, metric, issues, ret,
       sprint_regex, window, sprints, latest_completed, vels, lookups, now, tstamp,
       captures, iterated, db_writes, exit_status >>

login_vars == << user, logins >>
sum_vars == << metric, issues >>
vel_vars == << sprint_regex, window, sprints, latest_completed, vels, lookups >>
write_vars == << tstamp, captures, iterated, db_writes >>

NoIssues == [total |-> 0, items |-> << >>]
NoCalls == [op \in {} |-> 0]

\* The state before main's first statement, the arguments parsed.
InitCommon ==
    /\ logins = << >>
    /\ attempts = NoCalls
    /\ failed = {}
    /\ values = [k \in {} |-> None]
    /\ issues = NoIssues
    /\ ret = None
    /\ sprints = << >>
    /\ latest_completed = << >>
    /\ vels = << >>
    /\ lookups = << >>
    /\ now = 0
    /\ tstamp = 0
    /\ captures = 0
    /\ iterated = {}
    /\ db_writes = [w \in {} |-> 0]
    /\ exit_status = -1

Init ==
    /\ InitCommon
    /\ pc = "login"
    /\ dry_run \in BOOLEAN
    /\ user \in BOOLEAN
    /\ metric = 1
    /\ sprint_regex = NoRegex
    /\ window = 0

Exit(status) == pc' = "exited" /\ exit_status' = status

\* ------------------------------------------------------------------ jira_login

\* A handler that constructs the client again after every failure but the third.
caught_by_any_handler(n) == n <= 2

\* Whether a JIRAError of the n-th JIRA(...) construction is caught by the
\* inner handler (line 141), which constructs the client again without
\* credentials; the second construction is outside every inner try.
caught_by_inner_handler(n) == n = 1

\* One JIRA(...) construction of jira_login (lines 139-153).  The reading of
\* the password and the session cookie change nothing the run depends on and
\* are left out.
jira_login ==
    /\ pc = "login"
    /\ \E outcome \in CallOutcomes :
        LET n == Len(logins) + 1
            basic_auth == IF n = 1 /\ user THEN "basic" ELSE "anonymous"
        IN  /\ logins' = Append(logins, basic_auth)
            /\ attempts' = Bump(attempts, <<"connect", 0>>)
            /\ IF outcome = "ok"
               THEN /\ pc' = "count"
                    /\ UNCHANGED << failed, exit_status >>
               ELSE /\ failed' = failed \cup {<<"connect", 0, 0>>}
                    /\ IF caught_by_inner_handler(n)
                       THEN UNCHANGED << pc, exit_status >>
                       ELSE Exit(4)
    /\ UNCHANGED << dry_run, user, values, sum_vars, ret, vel_vars, now, write_vars >>

\* ------------------------------------------------------------------ the count loop

Called(calls) ==
    IF Len(calls) = 1 THEN Bump(attempts, calls[1])
    ELSE Bump(Bump(attempts, calls[1]), calls[2])

Raised(ops) == failed \cup {<<op[1], op[2], 0>> : op \in ops}

\* One iteration of main's loop over COUNT_QUERIES (lines 161-162), the
\* entries in any order.
count_issues ==
    /\ pc = "count"
    /\ \E key \in CountKeys \ DOMAIN values, fo \in CallOutcomes, so \in CallOutcomes, total \in Totals :
        LET r == retrieve_issues(fo, so, [total |-> total, items |-> << >>])
        IN  /\ attempts' = Called(issue_calls(FilterOf(key), fo))
            /\ failed' = Raised(issue_failures(FilterOf(key), fo, so))
            /\ IF r.exit /= 0
               THEN Exit(r.exit) /\ UNCHANGED values
               ELSE /\ values' = values @@ (key :> retrieve_issue_count(r.issues))
                    /\ pc' = IF DOMAIN values' = CountKeys THEN "sum_fetch" ELSE "count"
                    /\ UNCHANGED exit_status
    /\ UNCHANGED << dry_run, login_vars, sum_vars, ret, vel_vars, now, write_vars >>

\* ------------------------------------------------------------------ the field sums

IssuesWith(field, fieldvalues) ==
    [total |-> Len(fieldvalues),
     items |-> [i \in 1 .. Len(fieldvalues) |-> [fields |-> (field :> fieldvalues[i])]]]

\* Line 72: retrieve_sum_of_field fetches the issues of the filter.
fetch_issues(lists) ==
    /\ pc = "sum_fetch"
    /\ \E fo \in CallOutcomes, so \in CallOutcomes, l \in lists :
        LET q == SUM_QUERIES[metric]
            r == retrieve_issues(fo, so, IssuesWith(q.field, l))
        IN  /\ attempts' = Called(issue_calls(q.filter, fo))
            /\ failed' = Raised(issue_failures(q.filter, fo, so))
            /\ IF r.exit /= 0
               THEN Exit(r.exit) /\ UNCHANGED issues
               ELSE /\ issues' = r.issues
                    /\ pc' = "sum_compute"
                    /\ UNCHANGED exit_status
    /\ UNCHANGED << dry_run, login_vars, values, metric, ret, vel_vars, now, write_vars >>

\* Lines 73-74: the sum of the field.
sum_field ==
    /\ pc = "sum_compute"
    /\ ret' = retrieve_sum_of_field(issues, SUM_QUERIES[metric].field)
    /\ pc' = "sum_store"
    /\ UNCHANGED << dry_run, login_vars, attempts, failed, values, sum_vars, vel_vars,
                    now, write_vars, exit_status >>

\* Lines 77-90 and 163-165: the caller rounds the sum and main stores it.
store_sum ==
    /\ pc = "sum_store"
    /\ values' = values @@ (SUM_QUERIES[metric].key :> rounded_metric(ret, SUM_QUERIES[metric].step))
    /\ issues' = NoIssues
    /\ ret' = None
    /\ IF metric < Len(SUM_QUERIES)
       THEN metric' = metric + 1 /\ pc' = "sum_fetch"
       ELSE metric' = metric /\ pc' = "vel_call"
    /\ UNCHANGED << dry_run, login_vars, attempts, failed, vel_vars, now, write_vars, exit_status >>

\* ------------------------------------------------------------------ the velocity

\* Lines 166-167: main calls retrieve_sprint_velocity(jira, SPRINT_BOARD_ID, SPRINT_REGEX, 3).
call_velocity ==
    /\ pc = "vel_call"
    /\ sprint_regex' = SPRINT_REGEX
    /\ window' = 3
    /\ pc' = "sprints"
    /\ UNCHANGED << dry_run, login_vars, attempts, failed, values, sum_vars, ret, sprints,
                    latest_completed, vels, lookups, now, write_vars, exit_status >>

\* Lines 95-106 and 115-118: the sprints are listed and the latest completed chosen.
list_sprints(lists) ==
    /\ pc = "sprints"
    /\ attempts' = Bump(attempts, <<"sprints", SPRINT_BOARD_ID>>)
    /\ \/ \E l \in lists :
            /\ sprints' = l
            /\ latest_completed' = latest_completed_of(l, sprint_regex, window)
            /\ vels' = << >>
            /\ pc' = "estimates"
            /\ UNCHANGED << failed, ret >>
       \/ \E status \in StatusCodes :
            /\ failed' = failed \cup {<<"sprints", SPRINT_BOARD_ID, status>>}
            /\ ret' = on_JIRAError(status)
            /\ pc' = "vel_return"
            /\ UNCHANGED << sprints, latest_completed, vels >>
    /\ UNCHANGED << dry_run, login_vars, values, sum_vars, sprint_regex, window, lookups,
                    now, write_vars, exit_status >>

\* A KeyError counted as an estimate of 0.
on_KeyError_zero(collected) == Append(collected, Num(0))

\* Line 110-111: what the loop does with a KeyError of the lookup.
on_KeyError(collected) == collected

\* Lines 107-111 and 115-118: one iteration of the loop over latest_completed.
lookup_estimate ==
    /\ pc = "estimates"
    /\ Len(lookups) < Len(latest_completed)
    /\ \E o \in EstimateOutcomes :
        LET spr == latest_completed[Len(lookups) + 1]
        IN  /\ lookups' = Append(lookups, [id |-> spr.id, kind |-> o.kind, value |-> o.value])
            /\ attempts' = Bump(attempts, <<"estimate", spr.id>>)
            /\ IF o.kind = "sum"
               THEN vels' = Append(vels, o.value) /\ UNCHANGED << pc, ret, failed >>
               ELSE IF o.kind = "KeyError"
               THEN vels' = on_KeyError(vels) /\ UNCHANGED << pc, ret, failed >>
               ELSE /\ failed' = failed \cup {<<"estimate", spr.id, o.status>>}
                    /\ ret' = on_JIRAError(o.status)
                    /\ pc' = "vel_return"
                    /\ UNCHANGED vels
    /\ UNCHANGED << dry_run, login_vars, values, sum_vars, sprint_regex, window, sprints,
                    latest_completed, now, write_vars, exit_status >>

\* Lines 113-114: the loop is over, the average is returned.
return_velocity ==
    /\ pc = "estimates"
    /\ Len(lookups) = Len(latest_completed)
    /\ ret' = average_velocity(vels)
    /\ pc' = "vel_return"
    /\ UNCHANGED << dry_run, login_vars, attempts, failed, values, sum_vars, vel_vars,
                    now, write_vars, exit_status >>

\* Lines 166-167: main stores what retrieve_sprint_velocity returned.
store_velocity ==
    /\ pc = "vel_return"
    /\ values' = values @@ (SPRINT_VELOCITY_DB_KEY :> ret)
    /\ ret' = None
    /\ sprints' = << >>
    /\ latest_completed' = << >>
    /\ vels' = << >>
    /\ lookups' = << >>
    /\ pc' = "dry_check"
    /\ UNCHANGED << dry_run, login_vars, attempts, failed, sum_vars, sprint_regex, window,
                    now, write_vars, exit_status >>

\* ------------------------------------------------------------------ the writes

\* main without the exit of the dry run.
goes_on_to_write(dry) == FALSE

\* Lines 169-171: in a dry run the values are printed and the process exits.
exits_before_writing(dry) == dry

check_dry_run ==
    /\ pc = "dry_check"
    /\ IF exits_before_writing(dry_run)
       THEN Exit(0)
       ELSE pc' = "stamp" /\ UNCHANGED exit_status
    /\ UNCHANGED << dry_run, login_vars, attempts, failed, values, sum_vars, ret, vel_vars,
                    now, write_vars >>

\* Line 173: tstamp = int(time.time()) * 10 ** 9
capture_tstamp ==
    /\ pc = "stamp"
    /\ tstamp' = now * NANOS
    /\ captures' = captures + 1
    /\ pc' = "write"
    /\ UNCHANGED << dry_run, login_vars, attempts, failed, values, sum_vars, ret, vel_vars,
                    now, iterated, db_writes, exit_status >>

\* The clock read again at every write.
clock_at_write(stamp, clock) == clock * NANOS

\* Line 175: the timestamp handed to db_write.
written_tstamp(stamp, clock) == stamp

\* The loop over the keys of COUNT_QUERIES instead of those of values.
count_keys_to_write(mapping, done) == (DOMAIN mapping \cap CountKeys) \ done

\* Line 174: the keys values.iteritems() has still to yield.
still_to_write(mapping, done) == DOMAIN mapping \ done

\* Lines 174-175: one iteration of the loop over values, the pairs in any
\* order; main returns when the loop is over.
write_value ==
    /\ pc = "write"
    /\ \E key \in still_to_write(values, iterated) :
        /\ db_writes' = Bump(db_writes, [key |-> key, value |-> values[key],
                                         tstamp |-> written_tstamp(tstamp, now)])
        /\ iterated' = iterated \cup {key}
        /\ IF still_to_write(values, iterated') = {}
           THEN Exit(0)
           ELSE UNCHANGED << pc, exit_status >>
    /\ UNCHANGED << dry_run, login_vars, attempts, failed, values, sum_vars, ret, vel_vars,
                    now, tstamp, captures >>

\* A second passes while the process runs.
Tick ==
    /\ pc /= "exited"
    /\ now < MaxClock
    /\ now' = now + 1
    /\ UNCHANGED << pc, dry_run, login_vars, attempts, failed, values, sum_vars, ret,
                    vel_vars, write_vars, exit_status >>

\* ------------------------------------------------------------------ specifications

\* A run of main().
Next ==
    \/ jira_login
    \/ count_issues
    \/ fetch_issues(RunIssueLists)
    \/ sum_field
    \/ store_sum
    \/ call_velocity
    \/ list_sprints(RunSprintLists)
    \/ lookup_estimate
    \/ return_velocity
    \/ store_velocity
    \/ check_dry_run
    \/ capture_tstamp
    \/ write_value
    \/ Tick

Spec == Init /\ [][Next]_vars

\* One call of retrieve_sprint_velocity, with any pattern and any window.
InitVelocity ==
    /\ InitCommon
    /\ pc = "sprints"
    /\ dry_run = FALSE
    /\ user = FALSE
    /\ metric = 1
    /\ sprint_regex \in {NoRegex, SPRINT_REGEX}
    /\ window \in VelocityWindows

NextVelocity ==
    \/ list_sprints(VelocitySprintLists)
    \/ lookup_estimate
    \/ return_velocity

SpecVelocity == InitVelocity /\ [][NextVelocity]_vars

\* One call of retrieve_sum_of_field, for each of the three metrics.
InitSum ==
    /\ InitCommon
    /\ pc = "sum_fetch"
    /\ dry_run = FALSE
    /\ user = FALSE
    /\ metric \in 1 .. Len(SUM_QUERIES)
    /\ sprint_regex = NoRegex
    /\ window = 0

NextSum ==
    \/ fetch_issues(AllIssueLists)
    \/ sum_field

SpecSum == InitSum /\ [][NextSum]_vars

\* ------------------------------------------------------------------ properties

RECURSIVE SumOver(_, _)
SumOver(f, S) == IF S = {} THEN 0 ELSE LET x == CHOOSE y \in S : TRUE IN f[x] + SumOver(f, S \ {x})

\* How many times db_write was invoked, and how many times for one key.
Invocations == SumOver(db_writes, DOMAIN db_writes)
InvocationsOf(key) == SumOver(db_writes, {w \in DOMAIN db_writes : w.key = key})

SpecialKeys == {QRF_DB_KEY, BACKLOG_DEPTH_DB_KEY, SPRINT_BURNDOWN_DB_KEY, SPRINT_VELOCITY_DB_KEY}
AllKeys == CountKeys \cup SpecialKeys
AggregatorsReturned == DOMAIN values = AllKeys /\ pc \in {"dry_check", "stamp", "write", "exited"}

\* C1: in a dry run db_write is never invoked, whatever the aggregators
\* computed, and once every aggregator has returned the run ends with exit
\* status 0 (it never reaches the capture of the timestamp or the write loop).
C1_DryRunWritesNothing ==
    dry_run =>
        /\ Invocations = 0
        /\ pc \notin {"stamp", "write"}
        /\ (DOMAIN values = AllKeys /\ pc = "exited") => exit_status = 0

C1_Witness ==
    /\ dry_run
    /\ pc = "exited"
    /\ exit_status = 0
    /\ DOMAIN values = AllKeys
    /\ values[SPRINT_VELOCITY_DB_KEY] = AUTH_ERROR

\* C2: every db_write invocation of a run carries the same timestamp; the
\* clock is read at most once, after every aggregator has returned, and it has
\* been read once before db_write is invoked for the first time.
C2_OneSharedTimestamp ==
    /\ \A w1 \in DOMAIN db_writes, w2 \in DOMAIN db_writes : w1.tstamp = w2.tstamp
    /\ \A w \in DOMAIN db_writes : w.tstamp = tstamp
    /\ captures <= 1
    /\ Invocations > 0 => captures = 1
    /\ captures = 1 => AggregatorsReturned
    /\ pc = "stamp" => Invocations = 0

C2_Witness ==
    /\ Invocations >= 2
    /\ now * NANOS /= tstamp
    /\ \E w \in DOMAIN db_writes : w.key = SPRINT_VELOCITY_DB_KEY

QueryFailed == \E f \in failed : f[1] \in {"filter", "search"}

\* C3: once resolving a filter or searching issues has raised a tracker error,
\* the process has exited with status 3 and db_write has not been invoked; so
\* nothing is written unless every filter query of the run succeeded.
C3_QueryFailureExits3 ==
    QueryFailed => (pc = "exited" /\ exit_status = 3 /\ Invocations = 0 /\ captures = 0)

C3_Witness ==
    /\ QueryFailed
    /\ exit_status = 3
    /\ CountKeys \subseteq DOMAIN values
    /\ QRF_DB_KEY \in DOMAIN values
    /\ <<"search", BACKLOG_DEPTH_JIRA_FILTER, 0>> \in failed

ListingDenied == <<"sprints", SPRINT_BOARD_ID, 403>> \in failed

\* C4: when the listing of the sprints raised a JIRAError of status 403,
\* retrieve_sprint_velocity returns "AUTH_ERROR" and the process goes on (it
\* exits only with status 0); the value stored and written under
\* sprint_velocity is that sentinel, and a run that is no dry run has written
\* it when it ends.
C4_AuthErrorSentinel ==
    ListingDenied =>
        /\ exit_status \in {-1, 0}
        /\ pc = "vel_return" => ret = AUTH_ERROR
        /\ pc \in {"dry_check", "stamp", "write", "exited"} =>
               (SPRINT_VELOCITY_DB_KEY \in DOMAIN values /\ values[SPRINT_VELOCITY_DB_KEY] = AUTH_ERROR)
        /\ \A w \in DOMAIN db_writes : w.key = SPRINT_VELOCITY_DB_KEY => w.value = AUTH_ERROR
        /\ (~dry_run /\ pc = "exited") => InvocationsOf(SPRINT_VELOCITY_DB_KEY) = 1

C4_Witness ==
    /\ ListingDenied
    /\ ~dry_run
    /\ \E w \in DOMAIN db_writes : w.key = SPRINT_VELOCITY_DB_KEY /\ w.value = AUTH_ERROR

NumberOrAuthError(x) == x.kind \in {"num", "nan", "AUTH_ERROR"}

\* C5: every value handed to db_write is a number, the nan sentinel or
\* "AUTH_ERROR", and retrieve_sprint_velocity returns no other kind of value.
C5_OnlyNumbersOrAuthError ==
    \A w \in DOMAIN db_writes : NumberOrAuthError(w.value)

\* C6 as stated: no tracker call is made more than once in a run.
C6_NoCallRepeated == \A op \in DOMAIN attempts : attempts[op] <= 1

\* C6: no filter, search, sprint listing or estimate lookup is made more than
\* once; the connection is established at most twice, the second time only
\* after the first attempt raised a tracker error, and then without
\* credentials; a second failure ends the process with exit status 4.
C6_OnlyLoginTriedTwice ==
    /\ \A op \in DOMAIN attempts : attempts[op] <= (IF op = <<"connect", 0>> THEN 2 ELSE 1)
    /\ Len(logins) = (IF <<"connect", 0>> \in DOMAIN attempts THEN attempts[<<"connect", 0>>] ELSE 0)
    /\ Len(logins) = 2 => (logins[2] = "anonymous" /\ <<"connect", 0, 0>> \in failed)
    /\ exit_status = 4 => Len(logins) = 2

C6_Witness ==
    /\ Len(logins) = 2
    /\ QueryFailed
    /\ \A op \in DOMAIN attempts : op /= <<"connect", 0>> => attempts[op] = 1

\* C10: a run that is no dry run and ends with exit status 0 has invoked
\* db_write exactly once for each key of the count table and once for each of
\* the four special keys, and for no other key; db_write is invoked only after
\* every aggregator has returned.
C10_EachKeyWrittenOnce ==
    /\ \A w \in DOMAIN db_writes : w.key \in AllKeys /\ InvocationsOf(w.key) = 1
    /\ Invocations > 0 => (AggregatorsReturned /\ pc \in {"write", "exited"})
    /\ (~dry_run /\ pc = "exited" /\ exit_status = 0) =>
           /\ \A k \in AllKeys : InvocationsOf(k) = 1
           /\ Invocations = Cardinality(CountKeys) + 4
           /\ \A w \in DOMAIN db_writes : w.value = values[w.key]

C10_Witness ==
    /\ ~dry_run
    /\ pc = "exited"
    /\ exit_status = 0
    /\ Invocations = Cardinality(AllKeys)

\* ------------------------------------------------------------------ properties of retrieve_sprint_velocity

\* The sprints that count: closed and, when a pattern is given, of a matching name.
Eligible ==
    {s \in {sprints[i] : i \in 1 .. Len(sprints)} :
        s.state = "CLOSED" /\ (sprint_regex = NoRegex \/ re_match(sprint_regex, s.name))}

RECURSIVE LargestIds(_, _)
\* The n largest of the identifiers ids (all of them when there are fewer),
\* the largest first.
LargestIds(ids, n) ==
    IF n = 0 \/ ids = {} THEN << >>
    ELSE LET m == CHOOSE x \in ids : \A y \in ids : y <= x
         IN  <<m>> \o LargestIds(ids \ {m}, n - 1)

\* The window: the min(window, k) largest identifiers of the k eligible sprints.
WindowIds == LargestIds({s.id : s \in Eligible}, window)
LookedUp == [i \in 1 .. Len(lookups) |-> lookups[i].id]
IsPrefix(p, q) == Len(p) <= Len(q) /\ SubSeq(q, 1, Len(p)) = p
LookupRaised == \E i \in 1 .. Len(lookups) : lookups[i].kind = "JIRAError"

\* C7 as stated: when retrieve_sprint_velocity returns after a listing that
\* succeeded, the sprints it looked up are exactly the window, largest
\* identifier first.
C7_LooksUpWholeWindow ==
    (pc = "vel_return" /\ failed \cap {<<"sprints", SPRINT_BOARD_ID, c>> : c \in StatusCodes} = {})
        => LookedUp = WindowIds

\* C7: the sprints looked up are always a leading part of the window (the
\* min(N, k) largest identifiers of the closed, matching sprints, largest
\* first), so no open, future or non-matching sprint is looked up; when the
\* function returns they are the whole window unless a lookup raised a tracker
\* error, which is then the last lookup made.
C7_LooksUpLatestClosed ==
    /\ IsPrefix(LookedUp, WindowIds)
    /\ \A i \in 1 .. Len(lookups) : \E s \in Eligible : s.id = lookups[i].id
    /\ (pc = "vel_return" /\ ~LookupRaised) => LookedUp = WindowIds
    /\ \A i \in 1 .. Len(lookups) :
           lookups[i].kind = "JIRAError" => (i = Len(lookups) /\ pc = "vel_return")

C7_Witness ==
    /\ pc = "vel_return"
    /\ sprints = BoardSprints
    /\ sprint_regex = SPRINT_REGEX
    /\ window = 3
    /\ LookedUp = <<10, 9, 8>>

Succeeded == SelectSeq(lookups, LAMBDA l : l.kind = "sum")

RECURSIVE Total(_)
Total(ls) == IF ls = << >> THEN 0 ELSE Head(ls).value.v + Total(Tail(ls))

\* The mean of the sums of the lookups that succeeded, to one decimal (a tie
\* away from zero), nan when none succeeded.
MeanOfSucceeded ==
    IF Succeeded = << >> THEN NaN
    ELSE LET n == Len(Succeeded)
             t == Total(Succeeded)
         IN  Num(CHOOSE r \in {1000 * k : k \in 0 .. (t \div 1000) + 1} :
                     2 * (r * n - t) <= 1000 * n /\ 2 * (t - r * n) < 1000 * n)

\* C8 as stated: when a lookup raised KeyError, the function returns with the
\* whole window looked up, and its result is the mean of the sums of the
\* lookups that succeeded, or nan when none did.
C8_KeyErrorThenMean ==
    (pc = "vel_return" /\ \E i \in 1 .. Len(lookups) : lookups[i].kind = "KeyError")
        => (LookedUp = WindowIds /\ ret = MeanOfSucceeded)

\* C8: a KeyError of a lookup does not end the loop and adds nothing to the
\* sums; the sprints looked up stay a leading part of the window (a skipped
\* sprint is not replaced by an older one); when no lookup raised a tracker
\* error the whole window is looked up and the result is the mean of the sums
\* of the lookups that succeeded, nan when none did; a tracker error of a
\* lookup ends the loop, and the result is "AUTH_ERROR" for status 403 and None
\* for any other status.
C8_KeyErrorSkipsSprint ==
    /\ IsPrefix(LookedUp, WindowIds)
    /\ vels = [i \in 1 .. Len(Succeeded) |-> Succeeded[i].value]
    /\ (lookups /= << >> /\ lookups[Len(lookups)].kind = "KeyError" /\ Len(lookups) < Len(WindowIds))
           => pc = "estimates"
    /\ (pc = "vel_return" /\ failed = {}) => (LookedUp = WindowIds /\ ret = MeanOfSucceeded)
    /\ (pc = "vel_return" /\ LookupRaised) =>
           ret = (IF <<"estimate", lookups[Len(lookups)].id, 403>> \in failed THEN AUTH_ERROR ELSE None)

C8_Witness ==
    /\ pc = "vel_return"
    /\ Len(lookups) = 2
    /\ lookups[1].kind = "KeyError"
    /\ lookups[2].kind = "sum"
    /\ ret = lookups[2].value

\* ------------------------------------------------------------------ properties of retrieve_sum_of_field

RECURSIVE SumNullAsZero(_)
\* The sum of the field values, a null counted as 0.
SumNullAsZero(items) ==
    IF items = << >> THEN 0
    ELSE LET f == Head(items).fields[SUM_QUERIES[metric].field]
         IN  (IF f = None THEN 0 ELSE f.v) + SumNullAsZero(Tail(items))

\* C9: retrieve_sum_of_field returns the sum of the values of the field over
\* the issues, a null value counting as 0, and 0 when there is no issue.
C9_SumTreatsNullAsZero ==
    pc = "sum_store" =>
        /\ ret = Num(SumNullAsZero(issues.items))
        /\ issues.items = << >> => ret = Num(0)

C9_Witness ==
    /\ pc = "sum_store"
    /\ Len(issues.items) = 3
    /\ issues.items[1].fields[SUM_QUERIES[metric].field] = Num(5 * UNIT)
    /\ issues.items[2].fields[SUM_QUERIES[metric].field] = None
    /\ issues.items[3].fields[SUM_QUERIES[metric].field] = Num(3 * UNIT)
    /\ ret = Num(8 * UNIT)

====
